---- MODULE Spec2Model ----
(***************************************************************************)
(* ExecuTask backend: the request -> service -> repository -> store path   *)
(* of the todo entity.                                                     *)
(*                                                                         *)
(*   handler   Handle / TodoHandler.CreateTodo   (unnamed/part_000)        *)
(*   service   TodoService.CreateTodo            (internal/service/todo.go)*)
(*   repo      TodoRepository.CreateTodo         (internal/repository/     *)
(*                                                todo.go)                 *)
(*   repo      TodoRepository.GetTodoByID        (unnamed/part_000)        *)
(*                                                                         *)
(* The table schema (column defaults, generated keys), the scoped lookups  *)
(* CheckTodoExists / GetCategoryByID and the update path are not among the *)
(* source files; they are modelled from the design text.                   *)
(***************************************************************************)
EXTENDS Integers, Sequences, FiniteSets, TLC

VARIABLES
    todos,       \* rows of table todos
    categories,  \* rows of table categories
    nextId,      \* next identifier the store generates for a todo row
    now,         \* the store's clock
    call,        \* the request being answered or the job being run, with its result
    comments,    \* rows of table todo_comments
    attachments, \* rows of table todo_attachments
    objects,     \* keys of the objects in the bucket
    nextAtt,     \* next generated identifier of a comment, attachment or object key
    queue,       \* the tasks of the job queue, in the order of their enqueueing
    pending      \* create requests between the checks of the service and the insert

fileVars == <<comments, attachments, objects, nextAtt>>
jobVars  == <<queue>>

vars == <<todos, categories, nextId, now, call, fileVars, jobVars, pending>>

----------------------------------------------------------------------------
(* Bounds of the model *)

MaxTodos == 2    \* rows ever inserted into todos
MaxTime  == 2    \* last clock value

----------------------------------------------------------------------------
(* Nil pointers: *uuid.UUID, *time.Time, *Priority, *Metadata *)

NilID   == 0
NilTime == 0
NilStr  == "nil"

Users == {"u1", "u2"}

(* type Status / type Priority *)
StatusDraft     == "draft"
StatusActive    == "active"
StatusCompleted == "completed"
StatusArchived  == "archived"
PriorityLow     == "low"
PriorityMedium  == "medium"
PriorityHigh    == "high"

----------------------------------------------------------------------------
(* internal/errs: HTTPError constructors; a raw error is a Go error that   *)
(* is no HTTPError (fmt.Errorf wrapping a driver error).                   *)

NoErr == [kind |-> "none", code |-> "", status |-> 0, message |-> "", errors |-> <<>>]

NewBadRequestError(message) ==
    [kind |-> "BadRequest", code |-> "BAD_REQUEST", status |-> 400, message |-> message,
     errors |-> <<>>]

NewNotFoundError(message) ==
    [kind |-> "NotFound", code |-> "NOT_FOUND", status |-> 404, message |-> message,
     errors |-> <<>>]

RawError(message) ==
    [kind |-> "raw", code |-> "", status |-> 0, message |-> message, errors |-> <<>>]

NewInternalServerError ==
    [kind |-> "Internal", code |-> "INTERNAL_SERVER_ERROR", status |-> 500,
     message |-> "Internal Server Error", errors |-> <<>>]

(* What the store can fail with: the three constraint violations by their
   SQLSTATE, pgx.ErrNoRows, and anything else (a lost connection). *)
StoreErrors == {"23505", "23503", "23502", "no_rows", "other"}

(* sqlerr.HandleSQLError *)
HandleSQLError(storeErr) ==
    IF storeErr = "23505" THEN NewBadRequestError("Record already exists")
    ELSE IF storeErr = "23503" THEN NewBadRequestError("Referenced record not found")
    ELSE IF storeErr = "23502" THEN NewBadRequestError("Required field missing")
    ELSE IF storeErr = "no_rows" THEN NewNotFoundError("Record not found")
    ELSE NewInternalServerError

NoRec == [id |-> NilID]

----------------------------------------------------------------------------
(* Inputs of the requests *)

(* The caller-supplied text and scalar fields of a create request come in
   bundles, so that every field takes more than one value without the
   product of all of them. *)
CreateContents ==
    { [Title |-> "Buy milk", Description |-> "", Priority |-> PriorityHigh,
       Status |-> NilStr, DueDate |-> NilTime, Metadata |-> NilStr],
      [Title |-> "Pay rent", Description |-> "by friday", Priority |-> NilStr,
       Status |-> StatusDraft, DueDate |-> 1, Metadata |-> "tags:home"] }

(* A body that binds but fails validation: the title is empty. *)
UntitledPayload ==
    [Title |-> "", Description |-> "", Priority |-> NilStr, Status |-> NilStr,
     DueDate |-> NilTime, Metadata |-> NilStr,
     ParentTodoID |-> NilID, CategoryID |-> NilID]

(* The destination struct of a request whose body failed to bind. *)
ZeroPayload == UntitledPayload

TodoRefs     == 0 .. (MaxTodos + 1)   \* NilID, the ids the store can hold, one it never holds
CategoryRefs == 0 .. 3                \* NilID, two stored categories, one that is not stored

CreatePayloads ==
    { [Title |-> c.Title, Description |-> c.Description, Priority |-> c.Priority,
       Status |-> c.Status, DueDate |-> c.DueDate, Metadata |-> c.Metadata,
       ParentTodoID |-> p, CategoryID |-> k] :
         c \in CreateContents, p \in TodoRefs, k \in CategoryRefs }
    \cup {UntitledPayload}

----------------------------------------------------------------------------
(* model/todo: methods of Todo *)

CanHaveChildren_Always(t) == TRUE

CanHaveChildren(t) == t.parent_todo_id = NilID

----------------------------------------------------------------------------
(* Repository lookups that are scoped to the owning user *)

TodoRows(userID, todoID) ==
    { t \in todos : t.id = todoID /\ t.user_id = userID }

CheckTodoExists(userID, todoID) ==
    IF TodoRows(userID, todoID) = {}
    THEN [err |-> NewNotFoundError("todo not found"), todo |-> NoRec]
    ELSE [err |-> NoErr, todo |-> CHOOSE t \in TodoRows(userID, todoID) : TRUE]

CategoryRows(userID, categoryID) ==
    { c \in categories : c.id = categoryID /\ c.user_id = userID }

GetCategoryByID(userID, categoryID) ==
    IF CategoryRows(userID, categoryID) = {}
    THEN [err |-> NewNotFoundError("category not found"), category |-> NoRec]
    ELSE [err |-> NoErr, category |-> CHOOSE c \in CategoryRows(userID, categoryID) : TRUE]

----------------------------------------------------------------------------
(* TodoRepository.CreateTodo *)

(* The payload's priority is passed on as it is. *)
InsertPriority_NoDefault(payload) == payload.Priority

(* The default priority of the repository: "Check for empty priority field". *)
InsertPriority(payload) ==
    IF payload.Priority # NilStr THEN payload.Priority ELSE PriorityMedium

(* The statement also names status and updated_at, from the payload's
   status and a zero time. *)
InsertArgs_StatusAndTimestamp(userID, payload) ==
    [user_id        |-> userID,
     title          |-> payload.Title,
     description    |-> payload.Description,
     priority       |-> InsertPriority(payload),
     status         |-> payload.Status,
     due_date       |-> payload.DueDate,
     parent_todo_id |-> payload.ParentTodoID,
     category_id    |-> payload.CategoryID,
     metadata       |-> payload.Metadata,
     updated_at     |-> NilTime]

(* The metadata argument is left out of the arguments. *)
InsertArgs_NoMetadata(userID, payload) ==
    [user_id        |-> userID,
     title          |-> payload.Title,
     description    |-> payload.Description,
     priority       |-> InsertPriority(payload),
     due_date       |-> payload.DueDate,
     parent_todo_id |-> payload.ParentTodoID,
     category_id    |-> payload.CategoryID,
     metadata       |-> NilStr]

(* The statement also names status, from the payload's status when it has
   one. *)
InsertArgs_WithStatus(userID, payload) ==
    [user_id        |-> userID,
     title          |-> payload.Title,
     description    |-> payload.Description,
     priority       |-> InsertPriority(payload),
     status         |-> IF payload.Status # NilStr THEN payload.Status ELSE StatusActive,
     due_date       |-> payload.DueDate,
     parent_todo_id |-> payload.ParentTodoID,
     category_id    |-> payload.CategoryID,
     metadata       |-> payload.Metadata]

(* pgx.NamedArgs of the INSERT: the eight columns the statement names.
   The statement names neither id, status, completed_at, sort_order nor the
   two timestamps. *)
InsertArgs(userID, payload) ==
    [user_id        |-> userID,
     title          |-> payload.Title,
     description    |-> payload.Description,
     priority       |-> InsertPriority(payload),
     due_date       |-> payload.DueDate,
     parent_todo_id |-> payload.ParentTodoID,
     category_id    |-> payload.CategoryID,
     metadata       |-> payload.Metadata]

(* What the store fills in for the columns an INSERT does not name. *)
ColumnDefaults ==
    [id           |-> nextId,
     status       |-> StatusActive,
     completed_at |-> NilTime,
     sort_order   |-> 0,
     created_at   |-> now,
     updated_at   |-> now]

(* INSERT ... RETURNING *: the named columns win over the defaults. *)
InsertedRow(args) == args @@ ColumnDefaults

(* dbOk = FALSE: Query or CollectOneRow returns an error, which the
   repository wraps with fmt.Errorf and returns as it is. *)
RepoCreateTodo(userID, payload, dbOk) ==
    IF ~dbOk
    THEN [err |-> RawError("failed to execute create todo query"), todo |-> NoRec]
    ELSE [err |-> NoErr, todo |-> InsertedRow(InsertArgs(userID, payload))]

----------------------------------------------------------------------------
(* TodoService.CreateTodo *)

(* The lookup error rewrapped as a bad request, not returned as it is. *)
ValidateParent_Rewrapped(userID, parentTodoID) ==
    IF parentTodoID = NilID
    THEN [err |-> NoErr, calls |-> <<>>]
    ELSE LET found == CheckTodoExists(userID, parentTodoID) IN
         IF found.err # NoErr
         THEN [err |-> NewBadRequestError("Parent todo not found"), calls |-> <<"CheckTodoExists">>]
         ELSE IF ~CanHaveChildren(found.todo)
         THEN [err   |-> NewBadRequestError("Parent todo cannot have children (subtasks can't have subtasks)"),
               calls |-> <<"CheckTodoExists">>]
         ELSE [err |-> NoErr, calls |-> <<"CheckTodoExists">>]

(* "Validate parent todo exists and belongs to user (if provided)" *)
ValidateParent(userID, parentTodoID) ==
    IF parentTodoID = NilID
    THEN [err |-> NoErr, calls |-> <<>>]
    ELSE LET found == CheckTodoExists(userID, parentTodoID) IN
         IF found.err # NoErr
         THEN [err |-> found.err, calls |-> <<"CheckTodoExists">>]
         ELSE IF ~CanHaveChildren(found.todo)
         THEN [err   |-> NewBadRequestError("Parent todo cannot have children (subtasks can't have subtasks)"),
               calls |-> <<"CheckTodoExists">>]
         ELSE [err |-> NoErr, calls |-> <<"CheckTodoExists">>]

(* The category is not looked up at all. *)
ValidateCategory_Skipped(userID, categoryID) ==
    [err |-> NoErr, calls |-> <<>>]

(* "Validate category exists and belongs to user (if provided)" *)
ValidateCategory(userID, categoryID) ==
    IF categoryID = NilID
    THEN [err |-> NoErr, calls |-> <<>>]
    ELSE [err   |-> GetCategoryByID(userID, categoryID).err,
          calls |-> <<"GetCategoryByID">>]

NoEvent == [event |-> "none"]

(* "Business event log" *)
TodoCreatedEvent(todoItem) ==
    [event       |-> "todo_created",
     todo_id     |-> todoItem.id,
     title       |-> todoItem.title,
     category_id |-> todoItem.category_id,
     priority    |-> todoItem.priority]

Failed(err, calls) ==
    [err |-> err, todo |-> NoRec, calls |-> calls, event |-> NoEvent]

(* The category is validated first, the parent second. *)
ServiceCreateTodo_CategoryFirst(userID, payload, dbOk) ==
    LET category == ValidateCategory(userID, payload.CategoryID) IN
    IF category.err # NoErr THEN Failed(category.err, category.calls) ELSE
    LET parent == ValidateParent(userID, payload.ParentTodoID) IN
    IF parent.err # NoErr THEN Failed(parent.err, category.calls \o parent.calls) ELSE
    LET created == RepoCreateTodo(userID, payload, dbOk)
        calls   == category.calls \o parent.calls \o <<"CreateTodo">> IN
    IF created.err # NoErr THEN Failed(created.err, calls) ELSE
    [err |-> NoErr, todo |-> created.todo, calls |-> calls,
     event |-> TodoCreatedEvent(created.todo)]

(* The event is logged before the insert, of the row that is to be
   inserted, whether the insert succeeds or not. *)
ServiceCreateTodo_EventBeforeInsert(userID, payload, dbOk) ==
    LET parent == ValidateParent(userID, payload.ParentTodoID) IN
    IF parent.err # NoErr THEN Failed(parent.err, parent.calls) ELSE
    LET category == ValidateCategory(userID, payload.CategoryID) IN
    IF category.err # NoErr THEN Failed(category.err, parent.calls \o category.calls) ELSE
    LET created == RepoCreateTodo(userID, payload, dbOk)
        calls   == parent.calls \o category.calls \o <<"CreateTodo">> IN
    [err |-> created.err, todo |-> created.todo, calls |-> calls,
     event |-> TodoCreatedEvent(InsertedRow(InsertArgs(userID, payload)))]

(* The result of the service call: the error or the created row, the
   repository calls made in their order, and the event logged. *)
ServiceCreateTodo(userID, payload, dbOk) ==
    LET parent == ValidateParent(userID, payload.ParentTodoID) IN
    IF parent.err # NoErr THEN Failed(parent.err, parent.calls) ELSE
    LET category == ValidateCategory(userID, payload.CategoryID) IN
    IF category.err # NoErr THEN Failed(category.err, parent.calls \o category.calls) ELSE
    LET created == RepoCreateTodo(userID, payload, dbOk)
        calls   == parent.calls \o category.calls \o <<"CreateTodo">> IN
    IF created.err # NoErr THEN Failed(created.err, calls) ELSE
    [err |-> NoErr, todo |-> created.todo, calls |-> calls,
     event |-> TodoCreatedEvent(created.todo)]

(* TodoService.CreateTodo up to the insert: the two validations, each a
   query of its own; no transaction spans them and the insert. *)
CreateChecks(userID, payload) ==
    LET parent == ValidateParent(userID, payload.ParentTodoID) IN
    IF parent.err # NoErr THEN Failed(parent.err, parent.calls) ELSE
    LET category == ValidateCategory(userID, payload.CategoryID) IN
    IF category.err # NoErr THEN Failed(category.err, parent.calls \o category.calls) ELSE
    [err |-> NoErr, todo |-> NoRec, calls |-> parent.calls \o category.calls,
     event |-> NoEvent]

(* TodoService.CreateTodo from the insert on, after the calls made by the
   validations. *)
CreateWrite(userID, payload, calls, dbOk) ==
    LET created == RepoCreateTodo(userID, payload, dbOk) IN
    IF created.err # NoErr THEN Failed(created.err, calls \o <<"CreateTodo">>) ELSE
    [err |-> NoErr, todo |-> created.todo, calls |-> calls \o <<"CreateTodo">>,
     event |-> TodoCreatedEvent(created.todo)]

----------------------------------------------------------------------------
(* Handle: bind, validate, call the service, encode *)

(* The fields of the payload that break their validate tags, in the order
   of the struct: required,min=1 on the title, oneof on the priority and on
   the status when they are given. *)
FieldErrors(payload) ==
    (IF payload.Title = "" THEN <<[field |-> "title", error |-> "required"]>> ELSE <<>>)
    \o (IF payload.Priority \notin {NilStr, PriorityLow, PriorityMedium, PriorityHigh}
        THEN <<[field |-> "priority", error |-> "oneof"]>> ELSE <<>>)
    \o (IF payload.Status \notin {NilStr, StatusDraft, StatusActive, StatusCompleted,
                                  StatusArchived}
        THEN <<[field |-> "status", error |-> "oneof"]>> ELSE <<>>)

(* c.Validate(payload): nil when no field breaks its tags *)
Validate(payload) == FieldErrors(payload) = <<>>

(* The status the error middleware answers with: an HTTPError carries its
   own, any other error is an internal server error. *)
ErrorStatus(err) == IF err.kind = "raw" THEN 500 ELSE err.status

(* The service is called before the payload is validated. *)
Handle_ValidateAfterService(userID, bindOk, payload, dbOk, statusCode) ==
    IF ~bindOk
    THEN [Failed(NewBadRequestError("Invalid request"), <<>>) EXCEPT !.calls = <<"Bind">>]
         @@ [http |-> 400]
    ELSE LET res == ServiceCreateTodo(userID, payload, dbOk) IN
         IF ~Validate(payload)
         THEN Failed(NewBadRequestError("Validation failed"),
                     <<"Bind", "fn">> \o res.calls \o <<"Validate">>)
              @@ [http |-> 400]
         ELSE [res EXCEPT !.calls = <<"Bind", "fn">> \o res.calls \o <<"Validate">>]
              @@ [http |-> IF res.err # NoErr THEN ErrorStatus(res.err) ELSE statusCode]

Handle(userID, bindOk, payload, dbOk, statusCode) ==
    IF ~bindOk
    THEN [Failed(NewBadRequestError("Invalid request"), <<>>) EXCEPT !.calls = <<"Bind">>]
         @@ [http |-> 400]
    ELSE IF ~Validate(payload)
    THEN Failed(NewBadRequestError("Validation failed"), <<"Bind", "Validate">>)
         @@ [http |-> 400]
    ELSE LET res == ServiceCreateTodo(userID, payload, dbOk) IN
         [res EXCEPT !.calls = <<"Bind", "Validate", "fn">> \o res.calls]
         @@ [http |-> IF res.err # NoErr THEN ErrorStatus(res.err) ELSE statusCode]

----------------------------------------------------------------------------
(* TodoRepository.GetTodoByID: one query, WHERE t.id = $1 AND t.user_id = $2,
   LEFT JOIN categories ON t.category_id = c.id, LEFT JOIN todos ch ON
   ch.parent_todo_id = t.id *)

JoinedCategory(t) == { c \in categories : c.id = t.category_id }

JoinedChildren(t) ==
    { [id |-> ch.id, title |-> ch.title, status |-> ch.status] :
        ch \in { x \in todos : x.parent_todo_id = t.id } }

PopulatedTodo(t) ==
    t @@ [category |-> JoinedCategory(t), children |-> JoinedChildren(t)]

(* The query without the owner in its WHERE clause. *)
GetTodoByID_Unscoped(userID, todoID, dbOk) ==
    LET rows == { t \in todos : t.id = todoID } IN
    IF ~dbOk THEN [err |-> RawError("query failed"), todo |-> NoRec]
    ELSE IF rows = {} THEN [err |-> NewNotFoundError("Todo not found"), todo |-> NoRec]
    ELSE [err |-> NoErr, todo |-> PopulatedTodo(CHOOSE t \in rows : TRUE)]

(* dbOk = FALSE: QueryRow fails with an error other than pgx.ErrNoRows *)
GetTodoByID(userID, todoID, dbOk) ==
    LET rows == { t \in todos : t.id = todoID /\ t.user_id = userID } IN
    IF ~dbOk THEN [err |-> RawError("query failed"), todo |-> NoRec]
    ELSE IF rows = {} THEN [err |-> NewNotFoundError("Todo not found"), todo |-> NoRec]
    ELSE [err |-> NoErr, todo |-> PopulatedTodo(CHOOSE t \in rows : TRUE)]

----------------------------------------------------------------------------
(* Update task: the same two preconditions as create on the references the
   patch carries, then one UPDATE scoped by identifier and owner. *)

NoPatch == [Status |-> NilStr, ParentTodoID |-> NilID, CategoryID |-> NilID]

UpdatePatches ==
    { [NoPatch EXCEPT !.Status = st] : st \in {StatusActive, StatusCompleted} }
    \cup { [NoPatch EXCEPT !.ParentTodoID = p] : p \in TodoRefs \ {NilID} }
    \cup { [NoPatch EXCEPT !.CategoryID = k] : k \in CategoryRefs \ {NilID} }

PatchedStatus(t, patch) ==
    IF patch.Status # NilStr THEN patch.Status ELSE t.status

(* Every update that carries the status completed stamps the completion
   time again. *)
PatchedCompletedAt_StampedAgain(t, patch) ==
    IF PatchedStatus(t, patch) = StatusCompleted THEN now ELSE NilTime

(* The completion time is set on completion and never cleared. *)
PatchedCompletedAt_NeverCleared(t, patch) ==
    IF PatchedStatus(t, patch) = StatusCompleted
    THEN IF t.status = StatusCompleted THEN t.completed_at ELSE now
    ELSE t.completed_at

(* "status transition to completed sets completion timestamp; transition
   away from completed clears it" *)
PatchedCompletedAt(t, patch) ==
    IF PatchedStatus(t, patch) = StatusCompleted
    THEN IF t.status = StatusCompleted THEN t.completed_at ELSE now
    ELSE NilTime

UpdatedRow(t, patch) ==
    [t EXCEPT !.status         = PatchedStatus(t, patch),
              !.completed_at   = PatchedCompletedAt(t, patch),
              !.parent_todo_id = IF patch.ParentTodoID # NilID
                                 THEN patch.ParentTodoID ELSE t.parent_todo_id,
              !.category_id    = IF patch.CategoryID # NilID
                                 THEN patch.CategoryID ELSE t.category_id,
              !.updated_at     = now]

RepoUpdateTodo(userID, todoID, patch) ==
    IF TodoRows(userID, todoID) = {}
    THEN [err |-> NewNotFoundError("todo not found"), todo |-> NoRec]
    ELSE [err |-> NoErr,
          todo |-> UpdatedRow(CHOOSE t \in TodoRows(userID, todoID) : TRUE, patch)]

ServiceUpdateTodo(userID, todoID, patch) ==
    LET parent == ValidateParent(userID, patch.ParentTodoID) IN
    IF parent.err # NoErr THEN Failed(parent.err, parent.calls) ELSE
    LET category == ValidateCategory(userID, patch.CategoryID) IN
    IF category.err # NoErr THEN Failed(category.err, parent.calls \o category.calls) ELSE
    LET updated == RepoUpdateTodo(userID, todoID, patch)
        calls   == parent.calls \o category.calls \o <<"UpdateTodo">> IN
    IF updated.err # NoErr THEN Failed(updated.err, calls) ELSE
    [err |-> NoErr, todo |-> updated.todo, calls |-> calls, event |-> NoEvent]

MaxPending == 2    \* requests that wait for their insert at one time

----------------------------------------------------------------------------
(* TodoService.UploadTodoAttachment *)

MaxFiles == 3    \* comments, attachments and object keys ever generated

(* Where an upload goes wrong: file.Open, S3.UploadFile, the insert of the
   attachment row, or that insert and the S3.DeleteFile that rolls back. *)
UploadFaults == {"none", "open", "s3", "db", "db+rollback"}

(* "attachments/%s/%s/%s" of the user, the todo and a fresh uuid *)
S3Key(userID, todoID) == [user |-> userID, todo |-> todoID, uuid |-> nextAtt]

AttachmentRow(userID, todoID) ==
    [id |-> nextAtt, todo_id |-> todoID, uploaded_by |-> userID,
     s3_key |-> S3Key(userID, todoID)]

NoUpload(err, calls) ==
    [err |-> err, attachment |-> NoRec, calls |-> calls,
     attachments |-> attachments, objects |-> objects]

ServiceUploadTodoAttachment(userID, todoID, fault) ==
    IF CheckTodoExists(userID, todoID).err # NoErr
    THEN NoUpload(NewNotFoundError("Todo not found"), <<"CheckTodoExists">>)
    ELSE IF fault = "open"
    THEN NoUpload(NewBadRequestError("Failed to open file"), <<"CheckTodoExists", "Open">>)
    ELSE IF fault = "s3"
    THEN NoUpload(RawError("failed to upload file to S3"),
                  <<"CheckTodoExists", "Open", "S3.UploadFile">>)
    ELSE IF fault = "db"
    THEN NoUpload(RawError("failed to insert attachment"),
                  <<"CheckTodoExists", "Open", "S3.UploadFile", "UploadTodoAttachment",
                    "S3.DeleteFile">>)
    ELSE IF fault = "db+rollback"
    THEN [NoUpload(RawError("failed to insert attachment"),
                   <<"CheckTodoExists", "Open", "S3.UploadFile", "UploadTodoAttachment",
                     "S3.DeleteFile">>)
          EXCEPT !.objects = objects \cup {S3Key(userID, todoID)}]
    ELSE [err         |-> NoErr,
          attachment  |-> AttachmentRow(userID, todoID),
          calls       |-> <<"CheckTodoExists", "Open", "S3.UploadFile", "UploadTodoAttachment">>,
          attachments |-> attachments \cup {AttachmentRow(userID, todoID)},
          objects     |-> objects \cup {S3Key(userID, todoID)}]

----------------------------------------------------------------------------
(* Comments: one row per comment, of a task of the commenting user *)

CommentRow(userID, todoID) ==
    [id |-> nextAtt, todo_id |-> todoID, user_id |-> userID]

ServiceAddComment(userID, todoID) ==
    LET found == CheckTodoExists(userID, todoID) IN
    IF found.err # NoErr
    THEN [err |-> found.err, comment |-> NoRec, comments |-> comments]
    ELSE [err |-> NoErr, comment |-> CommentRow(userID, todoID),
          comments |-> comments \cup {CommentRow(userID, todoID)}]

----------------------------------------------------------------------------
(* Delete task: scoped to the owner; the task, then the task's comments,
   then the rows of the task's attachments, each followed by its object in
   the bucket. One statement for each, and no transaction around them. *)

TodoAttachments(todoID) == { a \in attachments : a.todo_id = todoID }

TodoComments(todoID) == { c \in comments : c.todo_id = todoID }

RECURSIVE InIdOrder(_)
InIdOrder(rows) ==
    IF rows = {} THEN <<>>
    ELSE LET first == CHOOSE r \in rows : \A o \in rows : r.id <= o.id IN
         <<first>> \o InIdOrder(rows \ {first})

(* The cascade stops at the first object the bucket fails to delete. *)
RECURSIVE RemoveAttachments_StopOnFailure(_, _)
RemoveAttachments_StopOnFailure(atts, s3Fail) ==
    IF atts = <<>> THEN [rows |-> {}, keys |-> {}, log |-> <<>>]
    ELSE LET a  == Head(atts)
             ok == a.s3_key \notin s3Fail IN
         IF ~ok
         THEN [rows |-> {a}, keys |-> {}, log |-> <<[key |-> a.s3_key, ok |-> FALSE]>>]
         ELSE LET rest == RemoveAttachments_StopOnFailure(Tail(atts), s3Fail) IN
              [rows |-> {a} \cup rest.rows,
               keys |-> {a.s3_key} \cup rest.keys,
               log  |-> <<[key |-> a.s3_key, ok |-> TRUE]>> \o rest.log]

(* For each attachment: its row is deleted, then its object; a failure of
   the bucket (a key in s3Fail) is logged and the next attachment follows.
   rows: the rows deleted, keys: the objects deleted, log: the deletions
   asked of the bucket, in their order. *)
RECURSIVE RemoveAttachments(_, _)
RemoveAttachments(atts, s3Fail) ==
    IF atts = <<>> THEN [rows |-> {}, keys |-> {}, log |-> <<>>]
    ELSE LET a    == Head(atts)
             ok   == a.s3_key \notin s3Fail
             rest == RemoveAttachments(Tail(atts), s3Fail) IN
         [rows |-> {a} \cup rest.rows,
          keys |-> (IF ok THEN {a.s3_key} ELSE {}) \cup rest.keys,
          log  |-> <<[key |-> a.s3_key, ok |-> ok]>> \o rest.log]

NoDelete(err) ==
    [err |-> err, calls |-> <<"CheckTodoExists">>, s3 |-> <<>>,
     todos |-> todos, comments |-> comments,
     attachments |-> attachments, objects |-> objects]

(* The comments of the task are left in the store. *)
ServiceDeleteTodo_CommentsKept(userID, todoID, s3Fail) ==
    LET found == CheckTodoExists(userID, todoID) IN
    IF found.err # NoErr THEN NoDelete(found.err) ELSE
    LET removed == RemoveAttachments(InIdOrder(TodoAttachments(todoID)), s3Fail) IN
    [err         |-> NoErr,
     calls       |-> <<"CheckTodoExists", "DeleteTodo", "DeleteTodoAttachments">>,
     s3          |-> removed.log,
     todos       |-> todos \ TodoRows(userID, todoID),
     comments    |-> comments,
     attachments |-> attachments \ removed.rows,
     objects     |-> objects \ removed.keys]

ServiceDeleteTodo(userID, todoID, s3Fail) ==
    LET found == CheckTodoExists(userID, todoID) IN
    IF found.err # NoErr THEN NoDelete(found.err) ELSE
    LET removed == RemoveAttachments(InIdOrder(TodoAttachments(todoID)), s3Fail) IN
    [err         |-> NoErr,
     calls       |-> <<"CheckTodoExists", "DeleteTodo", "DeleteTodoComments",
                       "DeleteTodoAttachments">>,
     s3          |-> removed.log,
     todos       |-> todos \ TodoRows(userID, todoID),
     comments    |-> comments \ TodoComments(todoID),
     attachments |-> attachments \ removed.rows,
     objects     |-> objects \ removed.keys]

----------------------------------------------------------------------------
(* List with filters and aggregate statistics *)

(* The rows of a user that pass the status filter of the query; a query
   without a status filter passes every row of the user. *)
MatchingTodos(userID, status) ==
    { t \in todos : t.user_id = userID /\ (status = NilStr \/ t.status = status) }

(* ORDER BY updated_at DESC; rows of one timestamp by descending id. *)
RECURSIVE LastModifiedFirst(_)
LastModifiedFirst(rows) ==
    IF rows = {} THEN <<>>
    ELSE LET first == CHOOSE r \in rows : \A o \in rows :
                         \/ r.updated_at > o.updated_at
                         \/ r.updated_at = o.updated_at /\ r.id >= o.id IN
         <<first>> \o LastModifiedFirst(rows \ {first})

(* LIMIT limit OFFSET (page - 1) * limit *)
PageOf(rows, page, limit) ==
    SubSeq(rows, (page - 1) * limit + 1,
           IF page * limit < Len(rows) THEN page * limit ELSE Len(rows))

(* The whole result, not a page of it. *)
GetTodos_NoLimit(userID, query) ==
    LET matching == MatchingTodos(userID, query.Status) IN
    [data  |-> LastModifiedFirst(matching),
     page  |-> query.Page,
     limit |-> query.Limit,
     total |-> Cardinality(matching)]

(* A page of records and the count of all the records that match. *)
GetTodos(userID, query) ==
    LET matching == MatchingTodos(userID, query.Status) IN
    [data  |-> PageOf(LastModifiedFirst(matching), query.Page, query.Limit),
     page  |-> query.Page,
     limit |-> query.Limit,
     total |-> Cardinality(matching)]

GetTodosQueries ==
    { [Status |-> st, Page |-> pg, Limit |-> n] :
        st \in {NilStr, StatusActive, StatusCompleted}, pg \in 1 .. 2, n \in 1 .. 2 }

(* Todo.IsOverdue *)
IsOverdue(t) ==
    t.due_date # NilTime /\ t.due_date < now /\ t.status # StatusCompleted

(* The counts over the rows of every user. *)
GetTodoStats_AllUsers(userID) ==
    [total     |-> Cardinality(todos),
     active    |-> Cardinality({ t \in todos : t.status = StatusActive }),
     completed |-> Cardinality({ t \in todos : t.status = StatusCompleted }),
     overdue   |-> Cardinality({ t \in todos : /\ t.due_date # NilTime
                                               /\ t.due_date < now
                                               /\ t.status # StatusCompleted })]

(* One query: the count of the rows of the user and three filtered counts. *)
GetTodoStats(userID) ==
    LET mine == { t \in todos : t.user_id = userID } IN
    [total     |-> Cardinality(mine),
     active    |-> Cardinality({ t \in mine : t.status = StatusActive }),
     completed |-> Cardinality({ t \in mine : t.status = StatusCompleted }),
     overdue   |-> Cardinality({ t \in mine : /\ t.due_date # NilTime
                                              /\ t.due_date < now
                                              /\ t.status # StatusCompleted })]

----------------------------------------------------------------------------
(* DueDateRemindersJob.Run and the job queue *)

MaxQueue == 2    \* tasks ever enqueued
MaxRetry == 3    \* asynq.MaxRetry(3)

(* Not completed nor archived, and due from now to so many hours from now. *)
DueInHours(hours) ==
    { t \in todos : /\ t.due_date # NilTime
                    /\ t.due_date >= now /\ t.due_date <= now + hours
                    /\ t.status \notin {StatusCompleted, StatusArchived} }

(* ORDER BY due_date; rows of one due date by id. *)
RECURSIVE DueFirst(_)
DueFirst(rows) ==
    IF rows = {} THEN <<>>
    ELSE LET first == CHOOSE r \in rows : \A o \in rows :
                         \/ r.due_date < o.due_date
                         \/ r.due_date = o.due_date /\ r.id <= o.id IN
         <<first>> \o DueFirst(rows \ {first})

(* dbOk = FALSE: the query fails. *)
GetTodosDueInHours(hours, limit, dbOk) ==
    IF ~dbOk THEN [err |-> RawError("failed to query todos due soon"), todos |-> <<>>]
    ELSE [err |-> NoErr, todos |-> PageOf(DueFirst(DueInHours(hours)), 1, limit)]

(* The task carries the title and the due date and no owner. *)
ReminderEmailTask_NoOwner(t) ==
    [UserID |-> "", TodoID |-> t.id, TodoTitle |-> t.title,
     DueDate |-> t.due_date, TaskType |-> "due_date_reminder"]

(* job.ReminderEmailTask of a todo *)
ReminderEmailTask(t) ==
    [UserID |-> t.user_id, TodoID |-> t.id, TodoTitle |-> t.title,
     DueDate |-> t.due_date, TaskType |-> "due_date_reminder"]

(* EnqueueReminderEmail: the task as the queue holds it. *)
QueuedTask(task) ==
    [type |-> "email:reminder", payload |-> task, queue |-> "critical",
     maxRetry |-> MaxRetry, retried |-> 0, executed |-> 0, sent |-> 0,
     state |-> "pending"]

NoneDone == [attempts |-> <<>>, enqueued |-> <<>>, enqueuedCount |-> 0, userTodos |-> <<>>]

(* The titles of a user in the grouping of the run *)
TitlesOf(userTodos, userID) ==
    SelectSeq(userTodos, LAMBDA e : e.user = userID)

(* Every title is added to the grouping of its user. *)
LoopBody_GroupingUnbounded(done, t, enqueueFail, maxPerUser) ==
    LET task == ReminderEmailTask(t)
        ok   == t.id \notin enqueueFail IN
    [attempts      |-> Append(done.attempts, [task |-> task, ok |-> ok]),
     enqueued      |-> IF ok THEN Append(done.enqueued, QueuedTask(task)) ELSE done.enqueued,
     enqueuedCount |-> IF ok THEN done.enqueuedCount + 1 ELSE done.enqueuedCount,
     userTodos     |-> Append(done.userTodos, [user |-> t.user_id, title |-> t.title])]

(* One pass of the loop over a todo: the grouping for the log, the task,
   the enqueue; a failed enqueue (the id is in enqueueFail) is logged and
   the loop goes on. *)
LoopBody(done, t, enqueueFail, maxPerUser) ==
    LET task == ReminderEmailTask(t)
        ok   == t.id \notin enqueueFail IN
    [attempts      |-> Append(done.attempts, [task |-> task, ok |-> ok]),
     enqueued      |-> IF ok THEN Append(done.enqueued, QueuedTask(task)) ELSE done.enqueued,
     enqueuedCount |-> IF ok THEN done.enqueuedCount + 1 ELSE done.enqueuedCount,
     userTodos     |-> IF Len(TitlesOf(done.userTodos, t.user_id)) < maxPerUser
                       THEN Append(done.userTodos, [user |-> t.user_id, title |-> t.title])
                       ELSE done.userTodos]

(* The loop ends at the first enqueue that fails. *)
RECURSIVE EnqueueEach_StopOnFailure(_, _, _, _)
EnqueueEach_StopOnFailure(list, done, enqueueFail, maxPerUser) ==
    IF list = <<>> THEN done
    ELSE IF Head(list).id \in enqueueFail
    THEN LoopBody(done, Head(list), enqueueFail, maxPerUser)
    ELSE EnqueueEach_StopOnFailure(Tail(list), LoopBody(done, Head(list), enqueueFail, maxPerUser),
                                   enqueueFail, maxPerUser)

(* for _, todo := range todos *)
RECURSIVE EnqueueEach(_, _, _, _)
EnqueueEach(list, done, enqueueFail, maxPerUser) ==
    IF list = <<>> THEN done
    ELSE EnqueueEach(Tail(list), LoopBody(done, Head(list), enqueueFail, maxPerUser),
                     enqueueFail, maxPerUser)

(* The todos that have a task in the queue already are left out. *)
RunDueDateReminders_SkipQueued(hours, batchSize, maxPerUser, dbOk, enqueueFail) ==
    LET found == GetTodosDueInHours(hours, batchSize, dbOk)
        fresh == SelectSeq(found.todos,
                           LAMBDA t : \A i \in DOMAIN queue : queue[i].payload.TodoID # t.id) IN
    IF found.err # NoErr
    THEN [job |-> "due-date-reminders", err |-> found.err, todos |-> <<>>] @@ NoneDone
    ELSE [job |-> "due-date-reminders", err |-> NoErr, todos |-> fresh]
         @@ EnqueueEach(fresh, NoneDone, enqueueFail, maxPerUser)

(* Run: what it fetched, what it tried to enqueue and with what outcome,
   what it enqueued, and the error it returns. *)
RunDueDateReminders(hours, batchSize, maxPerUser, dbOk, enqueueFail) ==
    LET found == GetTodosDueInHours(hours, batchSize, dbOk) IN
    IF found.err # NoErr
    THEN [job |-> "due-date-reminders", err |-> found.err, todos |-> <<>>] @@ NoneDone
    ELSE [job |-> "due-date-reminders", err |-> NoErr, todos |-> found.todos]
         @@ EnqueueEach(found.todos, NoneDone, enqueueFail, maxPerUser)

(* What an execution of the handler meets: the mail is sent, or the lookup
   of the user's address, the rendering of the template or the sending
   fails. *)
Outcomes == {"sent", "lookup", "render", "send"}

(* A failure to send is logged and not returned. *)
handleReminderEmailTask_SendErrorSwallowed(outcome) ==
    IF outcome \in {"lookup", "render"}
    THEN RawError(outcome) ELSE NoErr

(* handleReminderEmailTask: the error it returns *)
handleReminderEmailTask(outcome) ==
    IF outcome = "sent" THEN NoErr ELSE RawError(outcome)

(* The queue's retry policy: a task whose handler returns an error is
   retried until it has been retried maxRetry times and then dropped. *)
(* executed: the executions of the handler; sent: the mails that went out. *)
AfterExecution(item, err, outcome) ==
    [item EXCEPT
       !.executed = item.executed + 1,
       !.sent     = IF outcome = "sent" THEN item.sent + 1 ELSE item.sent,
       !.retried  = IF err # NoErr /\ item.retried < item.maxRetry
                    THEN item.retried + 1 ELSE item.retried,
       !.state    = IF err = NoErr THEN "delivered"
                    ELSE IF item.retried < item.maxRetry THEN "pending"
                    ELSE "dropped"]

----------------------------------------------------------------------------
(* The requests *)

(* The call named is among the calls the request made. *)
Invoked(c, name) == \E i \in 1 .. Len(c.calls) : c.calls[i] = name

NoRequest ==
    [op |-> "none", user |-> "", id |-> NilID, payload |-> ZeroPayload,
     err |-> NoErr, todo |-> NoRec, calls |-> <<>>, event |-> NoEvent, http |-> 0]

Init ==
    /\ todos = {}
    /\ categories = { [id |-> 1, user_id |-> "u1"], [id |-> 2, user_id |-> "u2"] }
    /\ nextId = 1
    /\ now = 1
    /\ call = NoRequest
    /\ comments = {}
    /\ attachments = {}
    /\ objects = {}
    /\ nextAtt = 1
    /\ queue = <<>>
    /\ pending = {}

(* POST /todos *)
CreateTodo(userID, bindOk, payload, dbOk) ==
    /\ call = NoRequest
    /\ \E res \in {Handle(userID, bindOk, payload, dbOk, 201)} :
          /\ res.err = NoErr => nextId <= MaxTodos
          /\ todos'  = IF res.err = NoErr THEN todos \cup {res.todo} ELSE todos
          /\ nextId' = IF res.err = NoErr THEN nextId + 1 ELSE nextId
          /\ call'   = [op |-> "create", user |-> userID, id |-> NilID,
                        payload |-> IF bindOk THEN payload ELSE ZeroPayload]
                       @@ res
          /\ UNCHANGED <<categories, now, fileVars, jobVars, pending>>

(* GET /todos/{id} *)
GetTodo(userID, todoID, dbOk) ==
    /\ call = NoRequest
    /\ \E res \in {GetTodoByID(userID, todoID, dbOk)} :
          /\ call' = [op |-> "get", user |-> userID, id |-> todoID, payload |-> ZeroPayload,
                      err |-> res.err, todo |-> res.todo, calls |-> <<"GetTodoByID">>,
                      event |-> NoEvent,
                      http |-> IF res.err # NoErr THEN ErrorStatus(res.err) ELSE 200]
          /\ UNCHANGED <<todos, categories, nextId, now, fileVars, jobVars, pending>>

(* PATCH /todos/{id} *)
UpdateTodo(userID, todoID, patch) ==
    /\ call = NoRequest
    /\ \E res \in {ServiceUpdateTodo(userID, todoID, patch)} :
          /\ todos' = IF res.err = NoErr
                      THEN (todos \ TodoRows(userID, todoID)) \cup {res.todo}
                      ELSE todos
          /\ call'  = [op |-> "update", user |-> userID, id |-> todoID,
                       before  |-> TodoRows(userID, todoID),
                       payload |-> [ZeroPayload EXCEPT !.Status = patch.Status,
                                                       !.ParentTodoID = patch.ParentTodoID,
                                                       !.CategoryID = patch.CategoryID],
                       http |-> IF res.err # NoErr THEN ErrorStatus(res.err) ELSE 200]
                      @@ res
          /\ UNCHANGED <<categories, nextId, now, fileVars, jobVars, pending>>

(* POST /todos/{id}/attachments *)
UploadTodoAttachment(userID, todoID, fault) ==
    /\ call = NoRequest
    /\ nextAtt <= MaxFiles
    /\ \E res \in {ServiceUploadTodoAttachment(userID, todoID, fault)} :
          /\ attachments' = res.attachments
          /\ objects'     = res.objects
          /\ nextAtt'     = IF Invoked(res, "S3.UploadFile") THEN nextAtt + 1 ELSE nextAtt
          /\ call'        = [op |-> "upload", user |-> userID, id |-> todoID, fault |-> fault,
                             err |-> res.err, attachment |-> res.attachment,
                             calls |-> res.calls,
                             http |-> IF res.err # NoErr THEN ErrorStatus(res.err) ELSE 201]
          /\ UNCHANGED <<todos, categories, nextId, now, comments, jobVars, pending>>

(* POST /todos/{id}/comments *)
AddComment(userID, todoID) ==
    /\ call = NoRequest
    /\ nextAtt <= MaxFiles
    /\ \E res \in {ServiceAddComment(userID, todoID)} :
          /\ comments' = res.comments
          /\ nextAtt'  = IF res.err = NoErr THEN nextAtt + 1 ELSE nextAtt
          /\ call'     = [op |-> "comment", user |-> userID, id |-> todoID,
                          err |-> res.err, comment |-> res.comment,
                          http |-> IF res.err # NoErr THEN ErrorStatus(res.err) ELSE 201]
          /\ UNCHANGED <<todos, categories, nextId, now, attachments, objects, jobVars, pending>>

(* DELETE /todos/{id}; s3Fail: the keys the bucket fails to delete *)
DeleteTodo(userID, todoID, s3Fail) ==
    /\ call = NoRequest
    /\ \E res \in {ServiceDeleteTodo(userID, todoID, s3Fail)} :
          /\ todos'       = res.todos
          /\ comments'    = res.comments
          /\ attachments' = res.attachments
          /\ objects'     = res.objects
          /\ call'        = [op |-> "delete", user |-> userID, id |-> todoID,
                             err |-> res.err, calls |-> res.calls, s3 |-> res.s3,
                             before |-> [todos       |-> { t \in todos : t.id = todoID },
                                         comments    |-> TodoComments(todoID),
                                         attachments |-> TodoAttachments(todoID)],
                             http |-> IF res.err # NoErr THEN ErrorStatus(res.err) ELSE 204]
          /\ UNCHANGED <<categories, nextId, now, nextAtt, jobVars, pending>>

(* DELETE /todos/{id}, statement by statement. The first: the task is
   looked up and its row deleted; the comments and the attachments of the
   task are still to be deleted. *)
BeginDelete(userID, todoID) ==
    /\ call = NoRequest
    /\ CheckTodoExists(userID, todoID).err = NoErr
    /\ todos' = todos \ TodoRows(userID, todoID)
    /\ call'  = [op |-> "cascade", user |-> userID, id |-> todoID, err |-> NoErr,
                 calls |-> <<"CheckTodoExists", "DeleteTodo">>, s3 |-> <<>>,
                 before |-> [todos       |-> TodoRows(userID, todoID),
                             comments    |-> TodoComments(todoID),
                             attachments |-> TodoAttachments(todoID)],
                 http |-> 0]
    /\ UNCHANGED <<categories, nextId, now, fileVars, jobVars, pending>>

(* The second statement: the comments of the task. *)
CascadeComments ==
    /\ call.op = "cascade"
    /\ ~Invoked(call, "DeleteTodoComments")
    /\ comments' = comments \ TodoComments(call.id)
    /\ call'     = [call EXCEPT !.calls = Append(@, "DeleteTodoComments")]
    /\ UNCHANGED <<todos, categories, nextId, now, attachments, objects, nextAtt, jobVars,
                   pending>>

(* The last: the attachments of the task and their objects; the request is
   answered. *)
CascadeAttachments(s3Fail) ==
    /\ call.op = "cascade"
    /\ Invoked(call, "DeleteTodoComments")
    /\ \E removed \in {RemoveAttachments(InIdOrder(TodoAttachments(call.id)), s3Fail)} :
          /\ attachments' = attachments \ removed.rows
          /\ objects'     = objects \ removed.keys
          /\ call'        = [call EXCEPT !.op = "delete",
                                         !.calls = Append(@, "DeleteTodoAttachments"),
                                         !.s3 = removed.log,
                                         !.http = 204]
    /\ UNCHANGED <<todos, categories, nextId, now, comments, nextAtt, jobVars, pending>>

(* The process is restored after the crash: the statements already made
   are undone, as those of a transaction that did not commit. *)
Crash_RolledBack ==
    /\ call.op = "cascade"
    /\ call'     = NoRequest
    /\ todos'    = todos \cup call.before.todos
    /\ comments' = comments \cup call.before.comments
    /\ UNCHANGED <<categories, nextId, now, attachments, objects, nextAtt, jobVars, pending>>

(* The process dies between two statements of the cascade: the request is
   lost with what it still had to do, the statements made stay made. *)
Crash ==
    /\ call.op = "cascade"
    /\ call' = NoRequest
    /\ UNCHANGED <<todos, categories, nextId, now, fileVars, jobVars, pending>>

(* GET /todos *)
ListTodos(userID, query) ==
    /\ call = NoRequest
    /\ call' = [op |-> "list", user |-> userID, query |-> query, err |-> NoErr,
                http |-> 200] @@ GetTodos(userID, query)
    /\ UNCHANGED <<todos, categories, nextId, now, fileVars, jobVars, pending>>

(* GET /todos/stats *)
TodoStats(userID) ==
    /\ call = NoRequest
    /\ call' = [op |-> "stats", user |-> userID, err |-> NoErr, http |-> 200,
                stats |-> GetTodoStats(userID)]
    /\ UNCHANGED <<todos, categories, nextId, now, fileVars, jobVars, pending>>

(* A run of the scheduled job with its configuration; enqueueFail: the
   ids of the todos whose enqueue fails. *)
RunJob(hours, batchSize, maxPerUser, dbOk, enqueueFail) ==
    /\ call = NoRequest
    /\ \E run \in {RunDueDateReminders(hours, batchSize, maxPerUser, dbOk, enqueueFail)} :
          /\ Len(queue) + Len(run.enqueued) <= MaxQueue
          /\ queue' = queue \o run.enqueued
          /\ call'  = [op |-> "job", hours |-> hours, batchSize |-> batchSize,
                       maxPerUser |-> maxPerUser, at |-> now] @@ run
          /\ UNCHANGED <<todos, categories, nextId, now, fileVars, pending>>

(* The queue's server executes a pending task. *)
ProcessTask(i, outcome) ==
    /\ i \in DOMAIN queue
    /\ queue[i].state = "pending"
    /\ queue' = [queue EXCEPT ![i] = AfterExecution(@, handleReminderEmailTask(outcome), outcome)]
    /\ UNCHANGED <<todos, categories, nextId, now, call, fileVars, pending>>

(* POST /todos of a request that runs beside other requests, up to the
   insert: the body is bound and validated and the service has made its
   checks. A request whose checks fail is answered; one whose checks pass
   waits for its insert. *)
BeginCreate(userID, payload) ==
    /\ call = NoRequest
    /\ Validate(payload)
    /\ Cardinality(pending) < MaxPending
    /\ \E res \in {CreateChecks(userID, payload)} :
          /\ pending' = IF res.err = NoErr
                         THEN pending \cup {[user |-> userID, payload |-> payload,
                                             calls |-> res.calls,
                                             checked |-> TodoRows(userID, payload.ParentTodoID)]}
                         ELSE pending
          /\ call'    = IF res.err = NoErr THEN call
                         ELSE [op |-> "create", user |-> userID, id |-> NilID,
                               payload |-> payload, checked |-> {},
                               http |-> ErrorStatus(res.err)]
                              @@ [res EXCEPT !.calls = <<"Bind", "Validate", "fn">> \o res.calls]
          /\ UNCHANGED <<todos, categories, nextId, now, fileVars, jobVars>>

(* The insert of a request that waited, and its response; checked: the
   parent as the check of the request saw it. *)
FinishCreate(req) ==
    /\ call = NoRequest
    /\ req \in pending
    /\ nextId <= MaxTodos + 1
    /\ \E res \in {CreateWrite(req.user, req.payload, req.calls, TRUE)} :
          /\ todos'   = todos \cup {res.todo}
          /\ nextId'  = nextId + 1
          /\ pending' = pending \ {req}
          /\ call'    = [op |-> "create", user |-> req.user, id |-> NilID,
                         payload |-> req.payload, checked |-> req.checked, http |-> 201]
                        @@ [res EXCEPT !.calls = <<"Bind", "Validate", "fn">> \o res.calls]
          /\ UNCHANGED <<categories, now, fileVars, jobVars>>

(* The response is written and the request is over, or the run of the job
   has returned; requests and runs are taken one at a time. *)
Respond ==
    /\ call # NoRequest
    /\ call.op # "cascade"
    /\ call' = NoRequest
    /\ UNCHANGED <<todos, categories, nextId, now, fileVars, jobVars, pending>>

(* The clock of the store advances. *)
Tick ==
    /\ now < MaxTime
    /\ now' = now + 1
    /\ UNCHANGED <<todos, categories, nextId, call, fileVars, jobVars, pending>>

(* Creates and reads with every combination of references; the clock
   stands still. *)
Next ==
    \/ \E u \in Users, p \in CreatePayloads, dbOk \in BOOLEAN : CreateTodo(u, TRUE, p, dbOk)
    \/ \E u \in Users : CreateTodo(u, FALSE, ZeroPayload, TRUE)
    \/ \E u \in Users, id \in TodoRefs \ {NilID}, dbOk \in BOOLEAN : GetTodo(u, id, dbOk)
    \/ Respond

Spec == Init /\ [][Next]_vars

(* Creates and updates. *)
UpdCreatePayloads ==
    { p \in CreatePayloads : p.Title = "Buy milk" }

NextUpd ==
    \/ \E u \in Users, p \in UpdCreatePayloads : CreateTodo(u, TRUE, p, TRUE)
    \/ \E u \in Users, id \in TodoRefs \ {NilID}, patch \in UpdatePatches : UpdateTodo(u, id, patch)
    \/ Respond
    \/ Tick

SpecUpd == Init /\ [][NextUpd]_vars

(* Creates, attachments, comments and deletes. *)
PlainPayload ==
    [Title |-> "Buy milk", Description |-> "", Priority |-> PriorityHigh,
     Status |-> NilStr, DueDate |-> NilTime, Metadata |-> NilStr,
     ParentTodoID |-> NilID, CategoryID |-> NilID]

S3Keys(todoID) == { a.s3_key : a \in TodoAttachments(todoID) }

NextDel ==
    \/ \E u \in Users : CreateTodo(u, TRUE, PlainPayload, TRUE)
    \/ \E u \in Users, id \in TodoRefs \ {NilID}, fault \in UploadFaults :
          UploadTodoAttachment(u, id, fault)
    \/ \E u \in Users, id \in TodoRefs \ {NilID} : AddComment(u, id)
    \/ \E u \in Users, id \in TodoRefs \ {NilID} :
          \E s3Fail \in SUBSET S3Keys(id) : DeleteTodo(u, id, s3Fail)
    \/ Respond

SpecDel == Init /\ [][NextDel]_vars

(* Creates, changes of status, lists and statistics, as time passes. *)
ListCreatePayloads ==
    { p \in CreatePayloads : p.Title # "" /\ p.ParentTodoID = NilID /\ p.CategoryID = NilID }

StatusPatches == { patch \in UpdatePatches : patch.Status # NilStr }

NextList ==
    \/ \E u \in Users, p \in ListCreatePayloads : CreateTodo(u, TRUE, p, TRUE)
    \/ \E u \in Users, id \in TodoRefs \ {NilID}, patch \in StatusPatches : UpdateTodo(u, id, patch)
    \/ \E u \in Users, q \in GetTodosQueries : ListTodos(u, q)
    \/ \E u \in Users : TodoStats(u)
    \/ Respond
    \/ Tick

SpecList == Init /\ [][NextList]_vars

(* Creates of todos with due dates and runs of the job, as time passes. *)
JobCreatePayloads ==
    { [PlainPayload EXCEPT !.DueDate = d] : d \in {NilTime, 1, MaxTime + 1} }

BatchSizes == 1 .. 2
ReminderHours == 1 .. 2
MaxTodosPerUserNotification == 1 .. 2

DueIds(hours, batchSize) ==
    { GetTodosDueInHours(hours, batchSize, TRUE).todos[i].id :
        i \in DOMAIN GetTodosDueInHours(hours, batchSize, TRUE).todos }

NextJob ==
    \/ \E u \in Users, p \in JobCreatePayloads : CreateTodo(u, TRUE, p, TRUE)
    \/ \E h \in ReminderHours, b \in BatchSizes, m \in MaxTodosPerUserNotification :
          \/ RunJob(h, b, m, FALSE, {})
          \/ \E enqueueFail \in SUBSET DueIds(h, b) : RunJob(h, b, m, TRUE, enqueueFail)
    \/ Respond
    \/ Tick

SpecJob == Init /\ [][NextJob]_vars

(* The queue alone: todos due now, runs of the job, and executions of the
   queued tasks by a server that keeps going. *)
NextQueue ==
    \/ \E u \in Users : CreateTodo(u, TRUE, [PlainPayload EXCEPT !.DueDate = 1], TRUE)
    \/ \E b \in BatchSizes :
          \E enqueueFail \in SUBSET DueIds(1, b) : RunJob(1, b, 1, TRUE, enqueueFail)
    \/ \E i \in 1 .. MaxQueue, o \in Outcomes : ProcessTask(i, o)
    \/ Respond

(* The server of the queue keeps executing the tasks that are pending. *)
SpecQueue ==
    /\ Init /\ [][NextQueue]_vars
    /\ \A i \in 1 .. MaxQueue : WF_vars(\E o \in Outcomes : ProcessTask(i, o))

(* Creates of tasks with and without the status completed in the body, and
   changes of status, as time passes. *)
DoneCreatePayloads ==
    { [PlainPayload EXCEPT !.Status = st] : st \in {NilStr, StatusCompleted} }

NextDone ==
    \/ \E u \in Users, p \in DoneCreatePayloads : CreateTodo(u, TRUE, p, TRUE)
    \/ \E u \in Users, id \in TodoRefs \ {NilID}, patch \in StatusPatches : UpdateTodo(u, id, patch)
    \/ Respond
    \/ Tick

SpecDone == Init /\ [][NextDone]_vars

(* Creates, comments, attachments and deletes made statement by statement
   by a process that can die between two statements. *)
NextCrash ==
    \/ \E u \in Users : CreateTodo(u, TRUE, PlainPayload, TRUE)
    \/ \E u \in Users, id \in TodoRefs \ {NilID} : UploadTodoAttachment(u, id, "none")
    \/ \E u \in Users, id \in TodoRefs \ {NilID} : AddComment(u, id)
    \/ \E u \in Users, id \in TodoRefs \ {NilID} : BeginDelete(u, id)
    \/ CascadeComments
    \/ \E s3Fail \in SUBSET S3Keys(call.id) : CascadeAttachments(s3Fail)
    \/ Crash
    \/ Respond

SpecCrash == Init /\ [][NextCrash]_vars

(* Requests of one principal that run beside each other: creates whose
   checks and insert are two steps, between which whole creates and updates
   of the parent reference (to another task) are served. *)
ParentPayloads ==
    { [PlainPayload EXCEPT !.ParentTodoID = p] : p \in TodoRefs }

ParentPatches == { patch \in UpdatePatches : patch.ParentTodoID # NilID }

NextRace ==
    \/ CreateTodo("u1", TRUE, PlainPayload, TRUE)
    \/ \E p \in ParentPayloads : BeginCreate("u1", p)
    \/ \E req \in pending : FinishCreate(req)
    \/ \E id \in TodoRefs \ {NilID}, patch \in ParentPatches :
          id # patch.ParentTodoID /\ UpdateTodo("u1", id, patch)
    \/ Respond

SpecRace == Init /\ [][NextRace]_vars

(* Creates with bodies that bind and break the validate tags of none, one
   or several fields. *)
ValidatedPayloads ==
    { [PlainPayload EXCEPT !.Title = t, !.Priority = p, !.Status = st] :
        t \in {"", "Buy milk"}, p \in {NilStr, "urgent"}, st \in {NilStr, "done"} }

NextVal ==
    \/ \E u \in Users, p \in ValidatedPayloads, dbOk \in BOOLEAN : CreateTodo(u, TRUE, p, dbOk)
    \/ \E u \in Users : CreateTodo(u, FALSE, ZeroPayload, TRUE)
    \/ Respond

SpecVal == Init /\ [][NextVal]_vars

----------------------------------------------------------------------------
(* Properties *)

(* The create request reached TodoService.CreateTodo. *)
ServiceCreate(c) == c.op = "create" /\ Invoked(c, "fn")

CannotHaveChildren == "Parent todo cannot have children (subtasks can't have subtasks)"

(* C1: in every state reached by creates and updates, no task that has a
   parent is itself the parent of another task. *)
C1_OneLevelTree ==
    \A t \in todos :
        t.parent_todo_id # NilID => ~ \E ch \in todos : ch.parent_todo_id = t.id

(* C2: a create whose parent reference resolves to a task of the caller
   that has a parent itself fails with BadRequest "cannot have children",
   never invokes the insert and leaves the stored tasks unchanged. *)
C2_SubtaskParentRejected ==
    [][ ( /\ ServiceCreate(call')
          /\ \E t \in todos : /\ t.id = call'.payload.ParentTodoID
                              /\ t.user_id = call'.user
                              /\ t.parent_todo_id # NilID )
        => ( /\ call'.err = NewBadRequestError(CannotHaveChildren)
             /\ call'.http = 400
             /\ ~Invoked(call', "CreateTodo")
             /\ todos' = todos ) ]_vars

C2_Witness ==
    /\ ServiceCreate(call)
    /\ call.err.message = CannotHaveChildren
    /\ \E t \in todos : /\ t.id = call.payload.ParentTodoID
                        /\ t.user_id = call.user
                        /\ t.parent_todo_id # NilID

(* C3: a create with a parent reference that matches no task, or a task of
   another principal, fails with NotFound and inserts no row. *)
C3_ParentScopedToPrincipal ==
    [][ ( /\ ServiceCreate(call')
          /\ call'.payload.ParentTodoID # NilID
          /\ ~ \E t \in todos : /\ t.id = call'.payload.ParentTodoID
                                /\ t.user_id = call'.user )
        => ( /\ call'.err.kind = "NotFound"
             /\ call'.http = 404
             /\ ~Invoked(call', "CreateTodo")
             /\ todos' = todos ) ]_vars

(* the parent exists, and belongs to another principal *)
C3_Witness ==
    /\ ServiceCreate(call)
    /\ call.err.kind = "NotFound"
    /\ \E t \in todos : t.id = call.payload.ParentTodoID /\ t.user_id # call.user

(* C4: every stored task with a category points to a category of its own
   principal, and a create whose category reference is absent or belongs to
   another principal fails and inserts no row. *)
C4_StoredCategoryOwned ==
    \A t \in todos :
        t.category_id # NilID =>
            \E c \in categories : c.id = t.category_id /\ c.user_id = t.user_id

C4_CategoryScopedToPrincipal ==
    /\ [] C4_StoredCategoryOwned
    /\ [][ ( /\ ServiceCreate(call')
             /\ call'.payload.CategoryID # NilID
             /\ ~ \E c \in categories : /\ c.id = call'.payload.CategoryID
                                        /\ c.user_id = call'.user )
           => ( /\ call'.err # NoErr
                /\ call'.todo = NoRec
                /\ ~Invoked(call', "CreateTodo")
                /\ todos' = todos ) ]_vars

(* a task with a category is stored, and a create naming the category of
   another principal has just failed at the category check *)
C4_Witness ==
    /\ \E t \in todos : t.category_id # NilID
    /\ ServiceCreate(call)
    /\ call.err = NewNotFoundError("category not found")
    /\ \E c \in categories : c.id = call.payload.CategoryID /\ c.user_id # call.user

ParentInvalid(userID, parentTodoID) ==
    /\ parentTodoID # NilID
    /\ \A t \in todos :
         (t.id = parentTodoID /\ t.user_id = userID) => t.parent_todo_id # NilID

CategoryInvalid(userID, categoryID) ==
    /\ categoryID # NilID
    /\ ~ \E c \in categories : c.id = categoryID /\ c.user_id = userID

(* C5: when the parent reference and the category reference are both
   invalid, the error is the parent check's and the category is never
   looked up. *)
C5_ParentBeforeCategory ==
    [][ ( /\ ServiceCreate(call')
          /\ ParentInvalid(call'.user, call'.payload.ParentTodoID)
          /\ CategoryInvalid(call'.user, call'.payload.CategoryID) )
        => ( /\ call'.err.message \in {"todo not found", CannotHaveChildren}
             /\ call'.calls = <<"Bind", "Validate", "fn", "CheckTodoExists">> ) ]_vars

C5_Witness ==
    /\ ServiceCreate(call)
    /\ ParentInvalid(call.user, call.payload.ParentTodoID)
    /\ CategoryInvalid(call.user, call.payload.CategoryID)
    /\ call.err.message = CannotHaveChildren

StoredRow(id) == { t \in todos : t.id = id }

(* C6: a successful create stores and returns priority "medium" when the
   command has none, and the command's priority otherwise. *)
C6_PriorityDefault ==
    (call.op = "create" /\ call.err = NoErr) =>
        LET want == IF call.payload.Priority = NilStr
                    THEN "medium" ELSE call.payload.Priority IN
        /\ call.todo.priority = want
        /\ StoredRow(call.todo.id) # {}
        /\ \A t \in StoredRow(call.todo.id) : t.priority = want

C6_Witness ==
    /\ call.op = "create" /\ call.err = NoErr
    /\ call.payload.Priority = NilStr
    /\ call.todo.priority = "medium"

(* C7: every stored task has a non-empty identifier that no other stored
   task has, and was created no later than it was last modified; so has the
   record a create returns. *)
C7_IdentifierAndTimestamps ==
    /\ \A t \in todos :
         /\ t.id # NilID
         /\ \A o \in todos : o.id = t.id => o = t
         /\ t.created_at <= t.updated_at
    /\ (call.op = "create" /\ call.err = NoErr) =>
         /\ call.todo.id # NilID
         /\ call.todo.created_at <= call.todo.updated_at
         /\ call.todo \in todos

(* two tasks, one of them modified after it was created *)
C7_Witness ==
    /\ \E t, o \in todos : t.id # o.id
    /\ \E t \in todos : t.created_at < t.updated_at

(* C8: a create that supplies no status and no due date yields status
   "active" and a null due date, and is answered 201. *)
C8_StatusDefault ==
    ( /\ call.op = "create" /\ call.err = NoErr
      /\ call.payload.Status = NilStr /\ call.payload.DueDate = NilTime )
    => ( /\ call.todo.status = "active"
         /\ call.todo.due_date = NilTime
         /\ call.http = 201
         /\ \A t \in StoredRow(call.todo.id) :
              t.status = "active" /\ t.due_date = NilTime )

C8_Witness ==
    /\ call.op = "create" /\ call.err = NoErr
    /\ call.payload.Title = "Buy milk" /\ call.payload.Priority = "high"
    /\ call.payload.Status = NilStr /\ call.payload.DueDate = NilTime
    /\ call.todo.status = "active" /\ call.todo.priority = "high"
    /\ call.http = 201

OwnedByOther(userID, todoID) ==
    \E t \in todos : t.id = todoID /\ t.user_id # userID

(* An identifier the store never generates within the model. *)
UnusedID == MaxTodos + 1

(* C9: a read of a task of another principal answers NotFound, exactly
   what a read of an identifier that matches no task answers; it is never
   Forbidden and shows no field of the task.  (When the query itself fails,
   both reads return the same driver error.) *)
C9_CrossPrincipalReadIsNotFound ==
    (call.op = "get" /\ OwnedByOther(call.user, call.id)) =>
        LET storeAnswered == call.err.kind # "raw"
            missing == GetTodoByID(call.user, UnusedID, storeAnswered) IN
        /\ storeAnswered => /\ call.err = NewNotFoundError("Todo not found")
                            /\ call.http = 404
        /\ call.err.kind # "Forbidden"
        /\ call.todo = NoRec
        /\ call.err = missing.err
        /\ call.todo = missing.todo

C9_Witness ==
    /\ call.op = "get" /\ OwnedByOther(call.user, call.id)
    /\ call.err.kind = "NotFound"

(* The record a read of the created task returns to its creator. *)
ReadBack == GetTodoByID(call.user, call.todo.id, TRUE)

RoundTripButPriority ==
    /\ ReadBack.err = NoErr
    /\ ReadBack.todo.user_id        = call.user
    /\ ReadBack.todo.title          = call.payload.Title
    /\ ReadBack.todo.description    = call.payload.Description
    /\ ReadBack.todo.due_date       = call.payload.DueDate
    /\ ReadBack.todo.parent_todo_id = call.payload.ParentTodoID
    /\ ReadBack.todo.category_id    = call.payload.CategoryID
    /\ ReadBack.todo.metadata       = call.payload.Metadata
    /\ ReadBack.todo.id             = call.todo.id
    /\ ReadBack.todo.created_at     = call.todo.created_at
    /\ ReadBack.todo.updated_at     = call.todo.updated_at

(* C10 as stated: after a successful create, the creator's read of the
   returned identifier shows the command's title, description, priority,
   due date, parent, category and metadata, and the identifier and
   timestamps the create returned. *)
C10_RoundTripVerbatim ==
    (call.op = "create" /\ call.err = NoErr) =>
        /\ RoundTripButPriority
        /\ ReadBack.todo.priority = call.payload.Priority

(* C10 amended: the priority read back is the command's when the command
   has one and "medium" when it has none; the other fields as stated. *)
C10_RoundTrip ==
    (call.op = "create" /\ call.err = NoErr) =>
        /\ RoundTripButPriority
        /\ ReadBack.todo.priority =
             IF call.payload.Priority = NilStr THEN "medium" ELSE call.payload.Priority

(* a create with a parent, a category, a due date and metadata succeeded *)
C10_Witness ==
    /\ call.op = "create" /\ call.err = NoErr
    /\ call.payload.ParentTodoID # NilID /\ call.payload.CategoryID # NilID
    /\ call.payload.DueDate # NilTime /\ call.payload.Metadata # NilStr
    /\ ReadBack.err = NoErr

----------------------------------------------------------------------------
(* Update applied twice *)

(* The patch of the update request being answered. *)
PatchOf(c) ==
    [Status |-> c.payload.Status, ParentTodoID |-> c.payload.ParentTodoID,
     CategoryID |-> c.payload.CategoryID]

(* The same update applied again to the store as the first one left it. *)
SecondUpdate == ServiceUpdateTodo(call.user, call.id, PatchOf(call))

UpdatedTwice ==
    call.op = "update" /\ call.err = NoErr /\ SecondUpdate.err = NoErr

SameButUpdatedAt(a, b) ==
    /\ DOMAIN a = DOMAIN b
    /\ \A f \in DOMAIN a \ {"updated_at"} : a[f] = b[f]

(* C11 as stated: the second application of an update leaves every persisted
   field but the last-modified timestamp as the first left it, and its
   last-modified timestamp is strictly greater than the first's. *)
C11_IdempotentStrictlyLater ==
    UpdatedTwice =>
        /\ SameButUpdatedAt(SecondUpdate.todo, call.todo)
        /\ SecondUpdate.todo.updated_at > call.todo.updated_at

(* C11 amended: the second application leaves every persisted field but the
   last-modified timestamp as the first left it; its last-modified timestamp
   is never smaller, and is strictly greater when the store's clock has
   advanced since the first application. *)
C11_Idempotent ==
    UpdatedTwice =>
        /\ SameButUpdatedAt(SecondUpdate.todo, call.todo)
        /\ SecondUpdate.todo.updated_at >= call.todo.updated_at
        /\ now > call.todo.updated_at =>
              SecondUpdate.todo.updated_at > call.todo.updated_at

(* a task was marked completed, the clock advanced, and the same update
   applies again *)
C11_Witness ==
    /\ UpdatedTwice
    /\ call.payload.Status = StatusCompleted
    /\ call.todo.completed_at # NilTime
    /\ now > call.todo.updated_at

(* C12: an update that changes the status to completed stores a non-null
   completion timestamp, and an update that changes the status from
   completed to another status stores a null completion timestamp. *)
C12_CompletionTimestamp ==
    [][ (call = NoRequest /\ call'.op = "update" /\ call'.err = NoErr) =>
          \A old \in TodoRows(call'.user, call'.id) :
             \E new \in todos' :
                /\ new.id = old.id /\ new = call'.todo
                /\ (old.status # StatusCompleted /\ new.status = StatusCompleted)
                      => new.completed_at # NilTime
                /\ (old.status = StatusCompleted /\ new.status # StatusCompleted)
                      => new.completed_at = NilTime ]_vars

(* a completed task, with its completion timestamp, was set back to active
   and its completion timestamp is null *)
C12_Witness ==
    /\ call.op = "update" /\ call.err = NoErr
    /\ \E old \in call.before :
          old.status = StatusCompleted /\ old.completed_at # NilTime
    /\ call.todo.status = StatusActive
    /\ call.todo.completed_at = NilTime
    /\ call.todo \in todos

----------------------------------------------------------------------------
(* Delete task *)

(* A step that answers a delete request. *)
DeleteStep == call = NoRequest /\ call'.op = "delete"

(* The bucket failed to delete the object of this key in the request. *)
BucketFailed(c, key) ==
    \E i \in DOMAIN c.s3 : c.s3[i].key = key /\ ~c.s3[i].ok

RowsGone ==
    /\ \A t \in todos' : t.id # call'.id
    /\ \A c \in comments' : c.todo_id # call'.id
    /\ \A a \in attachments' : a.todo_id # call'.id

NonOwnerRemovesNothing ==
    (\E t \in todos : t.id = call'.id /\ t.user_id # call'.user) =>
        /\ call'.err # NoErr
        /\ UNCHANGED <<todos, comments, attachments, objects>>

(* C13 as stated: after a delete by the owner that completes without
   failure, the task, its comments and its attachments are gone from the
   store and the object of every one of those attachments is gone from the
   bucket; a delete by a non-owner removes nothing. *)
C13_DeleteRemovesEverything ==
    [][ DeleteStep =>
          /\ call'.err = NoErr =>
                /\ RowsGone
                /\ \A a \in TodoAttachments(call'.id) : a.s3_key \notin objects'
          /\ NonOwnerRemovesNothing ]_vars

(* C13 amended: as stated, but the object of an attachment is gone from the
   bucket only when the bucket did not fail to delete it. *)
C13_DeleteCascades ==
    [][ DeleteStep =>
          /\ call'.err = NoErr =>
                /\ RowsGone
                /\ \A a \in TodoAttachments(call'.id) :
                      a.s3_key \notin objects' \/ BucketFailed(call', a.s3_key)
          /\ NonOwnerRemovesNothing ]_vars

(* a task with a comment and two attachments was deleted by its owner, and
   the rows and both objects are gone *)
C13_Witness ==
    /\ call.op = "delete" /\ call.err = NoErr
    /\ Cardinality(call.before.attachments) = 2
    /\ call.before.comments # {}
    /\ \A a \in call.before.attachments :
          a.s3_key \notin objects /\ a \notin attachments
    /\ \A c \in call.before.comments : c \notin comments
    /\ \A t \in call.before.todos : t \notin todos

(* C14: in a delete in which the bucket fails to delete the object of an
   attachment, the row of that attachment is removed all the same, the
   bucket is asked once for each attachment of the task and not again, and
   the rows of all the task's attachments are removed. *)
C14_BucketFailureNotRetried ==
    [][ ( /\ DeleteStep /\ call'.err = NoErr
          /\ \E a \in TodoAttachments(call'.id) : BucketFailed(call', a.s3_key) ) =>
          \A a \in TodoAttachments(call'.id) :
             /\ a \notin attachments'
             /\ Cardinality({ i \in DOMAIN call'.s3 : call'.s3[i].key = a.s3_key }) = 1
             /\ BucketFailed(call', a.s3_key) =>
                   (a.s3_key \in objects <=> a.s3_key \in objects') ]_vars

(* the bucket failed on the first of two attachments and deleted the object
   of the second *)
C14_Witness ==
    /\ call.op = "delete" /\ call.err = NoErr
    /\ Len(call.s3) = 2
    /\ ~call.s3[1].ok /\ call.s3[2].ok
    /\ call.s3[1].key \in objects /\ call.s3[2].key \notin objects
    /\ \A a \in call.before.attachments : a \notin attachments

----------------------------------------------------------------------------
(* List and statistics *)

(* C15: a list answers with at most as many records as the page size; every
   record is the caller's and has the status asked for; the total is not
   smaller than the number of records and is the number of the caller's
   tasks of that status. *)
C15_ListPage ==
    (call.op = "list" /\ call.query.Status # NilStr) =>
        /\ Len(call.data) <= call.query.Limit
        /\ \A i \in DOMAIN call.data :
              /\ call.data[i].user_id = call.user
              /\ call.data[i].status = call.query.Status
              /\ call.data[i] \in todos
        /\ call.total >= Len(call.data)
        /\ call.total = Cardinality({ t \in todos : /\ t.user_id = call.user
                                                    /\ t.status = call.query.Status })

(* two completed tasks of the caller, listed one a page: one record, total
   two, while a task of another status or owner would not be among them *)
C15_Witness ==
    /\ call.op = "list" /\ call.query.Status = StatusCompleted
    /\ call.query.Limit = 1 /\ call.query.Page = 1
    /\ Len(call.data) = 1
    /\ call.total = 2

(* The counts a reader of the user's full list arrives at, record by
   record. *)
RECURSIVE CountedOverList(_)
CountedOverList(list) ==
    IF list = <<>> THEN [total |-> 0, active |-> 0, completed |-> 0, overdue |-> 0]
    ELSE LET t    == Head(list)
             rest == CountedOverList(Tail(list)) IN
         [total     |-> rest.total + 1,
          active    |-> rest.active + (IF t.status = StatusActive THEN 1 ELSE 0),
          completed |-> rest.completed + (IF t.status = StatusCompleted THEN 1 ELSE 0),
          overdue   |-> rest.overdue + (IF IsOverdue(t) THEN 1 ELSE 0)]

FullList(userID) ==
    GetTodos(userID, [Status |-> NilStr, Page |-> 1, Limit |-> Cardinality(todos) + 1]).data

(* C16: the statistics of a user are the counts over that user's full list:
   all, the active, the completed, and the overdue (due in the past and not
   completed); the tasks of other users count for nothing. *)
C16_StatsCountTheList ==
    [][ (call = NoRequest /\ call'.op = "stats") =>
          /\ call'.stats = CountedOverList(FullList(call'.user))
          /\ \A i \in DOMAIN FullList(call'.user) :
                FullList(call'.user)[i].user_id = call'.user ]_vars

(* the caller's one task is overdue and counted, another user's task is
   not counted *)
C16_Witness ==
    /\ call.op = "stats"
    /\ call.stats.total = 1 /\ call.stats.overdue = 1
    /\ \E t \in todos : t.user_id # call.user

----------------------------------------------------------------------------
(* The scheduled job and the queue *)

(* A step that is a run of the job. *)
RunStep == call = NoRequest /\ call'.op = "job"

(* The tasks the step added to the queue. *)
Enqueued == SubSeq(queue', Len(queue) + 1, Len(queue'))

(* C17: a run with batch size B fetches at most B todos, all of them due in
   the window; it tries one enqueue for each fetched todo, of a task with
   that todo's id and owner, and nothing else is added to the queue. *)
C17_OneEnqueuePerSelected ==
    [][ (RunStep /\ call'.err = NoErr) =>
          /\ Len(call'.todos) <= call'.batchSize
          /\ \A i \in DOMAIN call'.todos : call'.todos[i] \in DueInHours(call'.hours)
          /\ Len(call'.attempts) = Len(call'.todos)
          /\ \A i \in DOMAIN call'.todos :
                /\ call'.attempts[i].task.TodoID = call'.todos[i].id
                /\ call'.attempts[i].task.UserID = call'.todos[i].user_id
                /\ \A j \in DOMAIN call'.todos :
                      call'.todos[j].id = call'.todos[i].id => j = i
          /\ \A k \in DOMAIN Enqueued :
                \E i \in DOMAIN call'.attempts :
                   call'.attempts[i].ok /\ Enqueued[k].payload = call'.attempts[i].task
          /\ Len(Enqueued) <= Len(call'.attempts) ]_vars

(* two todos are due in the window, the batch size is one: one todo is
   fetched and one task, of its id and owner, is enqueued *)
C17_Witness ==
    /\ call.op = "job" /\ call.err = NoErr /\ call.at = now
    /\ call.batchSize = 1
    /\ Cardinality(DueInHours(call.hours)) = 2
    /\ Len(call.todos) = 1 /\ Len(call.attempts) = 1 /\ call.attempts[1].ok
    /\ \E k \in DOMAIN queue : /\ queue[k].payload.TodoID = call.todos[1].id
                               /\ queue[k].payload.UserID = call.todos[1].user_id

OkAttempts(c) == { i \in DOMAIN c.attempts : c.attempts[i].ok }

(* C18: in a run in which an enqueue fails, every fetched todo still has
   its enqueue tried, the run returns no error, and the count it reports is
   the number of enqueues that succeeded, which is what the queue grew by. *)
C18_EnqueueFailureSkipped ==
    [][ ( /\ RunStep /\ call'.todos # <<>>
          /\ \E i \in DOMAIN call'.attempts : ~call'.attempts[i].ok ) =>
          /\ call'.err = NoErr
          /\ Len(call'.attempts) = Len(call'.todos)
          /\ \A i \in DOMAIN call'.todos :
                call'.attempts[i].task.TodoID = call'.todos[i].id
          /\ call'.enqueuedCount = Cardinality(OkAttempts(call'))
          /\ Len(Enqueued) = call'.enqueuedCount ]_vars

(* the enqueue for the first of two todos failed, the one for the second
   succeeded, and the run reports one *)
C18_Witness ==
    /\ call.op = "job" /\ call.err = NoErr
    /\ Len(call.todos) = 2 /\ Len(call.attempts) = 2
    /\ ~call.attempts[1].ok /\ call.attempts[2].ok
    /\ call.enqueuedCount = 1

(* C19: a run takes every todo its query returns, whatever runs before it
   enqueued: a todo with a task in the queue already gets another one. *)
C19_RunsKeepNoState ==
    [][ (RunStep /\ call'.err = NoErr) =>
          \A t \in DueInHours(call'.hours) :
             (\E i \in DOMAIN GetTodosDueInHours(call'.hours, call'.batchSize, TRUE).todos :
                 GetTodosDueInHours(call'.hours, call'.batchSize, TRUE).todos[i] = t)
             => \E i \in DOMAIN call'.attempts :
                   /\ call'.attempts[i].task.TodoID = t.id
                   /\ call'.attempts[i].ok => \E k \in DOMAIN Enqueued :
                                                 Enqueued[k].payload.TodoID = t.id ]_vars

(* two tasks of one todo are in the queue, enqueued by two runs *)
C19_Witness ==
    /\ call.op = "job" /\ call.err = NoErr
    /\ Len(call.enqueued) = 1
    /\ \E i, j \in DOMAIN queue :
          /\ i < j
          /\ queue[i].payload.TodoID = queue[j].payload.TodoID
          /\ queue[j] = call.enqueued[1]

Ended(item) == item.state \in {"delivered", "dropped"}

(* C20: a task is executed at most once and three times more; an execution
   that fails leaves the task to be retried, or dropped when it was the
   last one allowed, and never delivered; every task in the queue ends
   delivered or dropped. *)
C20_BoundedRetries ==
    /\ [] (\A i \in DOMAIN queue :
              /\ queue[i].executed <= 1 + MaxRetry
              /\ queue[i].retried <= MaxRetry
              /\ queue[i].state = "dropped" => queue[i].executed = 1 + MaxRetry
              /\ queue[i].state = "delivered" => queue[i].sent = 1)
    /\ [][ \A i \in DOMAIN queue :
              (queue'[i].executed = queue[i].executed + 1 /\ queue'[i].sent = queue[i].sent) =>
                 \/ queue'[i].state = "pending" /\ queue'[i].retried = queue[i].retried + 1
                 \/ queue'[i].state = "dropped" /\ queue[i].retried = MaxRetry ]_vars
    /\ \A i \in 1 .. MaxQueue :
          (i \in DOMAIN queue) ~> (i \in DOMAIN queue /\ Ended(queue[i]))

(* a task was dropped after its fourth failed execution while another was
   delivered *)
C20_Witness ==
    \E i, j \in DOMAIN queue :
       /\ queue[i].state = "dropped" /\ queue[i].executed = 1 + MaxRetry
       /\ queue[j].state = "delivered"

----------------------------------------------------------------------------
(* The fields named by the entries of an errors list *)
FieldsListed(errors) == { errors[i].field : i \in DOMAIN errors }

OffendingFields(payload) == FieldsListed(FieldErrors(payload))

(* C21: the response to a request whose payload breaks the validation rules
   of several fields lists every offending field in its errors list, one
   entry for each. *)
C21_EveryOffendingFieldListed ==
    ( /\ call.op = "create"
      /\ Invoked(call, "Validate")
      /\ Cardinality(OffendingFields(call.payload)) >= 2 )
    => ( /\ call.err.kind = "BadRequest"
         /\ FieldsListed(call.err.errors) = OffendingFields(call.payload)
         /\ Len(call.err.errors) = Cardinality(OffendingFields(call.payload)) )

----------------------------------------------------------------------------
(* The closed set of the kinds of the domain errors *)
DomainKinds == { HandleSQLError(storeErr).kind : storeErr \in StoreErrors }

(* The request reached the repository and the repository returned an error. *)
RepositoryFailed(c) ==
    /\ c.err # NoErr
    /\ \/ c.op = "create" /\ Invoked(c, "CreateTodo")
       \/ c.op = "get" /\ Invoked(c, "GetTodoByID")

(* C22: every error the repository returns to the service is of one of the
   domain kinds BadRequest, NotFound and Internal, as HandleSQLError maps
   the errors of the store; no raw error of the store is returned, by the
   insert of create-task as by the rest. *)
C22_OnlyDomainErrors ==
    RepositoryFailed(call) => call.err.kind \in DomainKinds

----------------------------------------------------------------------------
(* C23: a create-task call that returns a record has logged the event
   todo_created once, with the identifier, the title, the category reference
   and the priority of that record, after the insert of the record; a call
   that fails at the parent check, the category check or the insert has
   logged no event. *)
C23_EventOncePerCreatedTask ==
    call.op = "create" =>
        IF call.err = NoErr
        THEN /\ call.event = [event       |-> "todo_created",
                              todo_id     |-> call.todo.id,
                              title       |-> call.todo.title,
                              category_id |-> call.todo.category_id,
                              priority    |-> call.todo.priority]
             /\ Invoked(call, "CreateTodo")
             /\ call.calls[Len(call.calls)] = "CreateTodo"
             /\ call.todo \in todos
        ELSE call.event = NoEvent

(* a task with a category and the default priority has been created *)
C23_Witness ==
    /\ call.op = "create"
    /\ call.err = NoErr
    /\ call.event.event = "todo_created"
    /\ call.event.todo_id = call.todo.id
    /\ call.event.category_id # NilID
    /\ call.payload.Priority = NilStr
    /\ call.event.priority = PriorityMedium

----------------------------------------------------------------------------
(* C24: a create-task with parent P whose check saw P as a top-level task
   has, under every interleaving with the other requests of the principal,
   written a child of a top-level task: when its insert is done P is no
   subtask, so that no subtask is a parent. *)
C24_CheckThenWriteKeepsOneLevel ==
    ( /\ call.op = "create"
      /\ call.err = NoErr
      /\ call.payload.ParentTodoID # NilID
      /\ \A p \in call.checked : p.parent_todo_id = NilID )
    => \A p \in TodoRows(call.user, call.payload.ParentTodoID) : p.parent_todo_id = NilID

----------------------------------------------------------------------------
(* The row references a task that is not in the store, and no cascade that
   would delete the row is under way. *)
Orphaned(row) ==
    /\ ~ \E t \in todos : t.id = row.todo_id
    /\ ~ (call.op = "cascade" /\ call.id = row.todo_id)

OrphanedRows == { row \in comments \cup attachments : Orphaned(row) }

(* What the cascade under way has still to delete *)
StillToDelete ==
    (IF Invoked(call, "DeleteTodoComments") THEN {} ELSE TodoComments(call.id))
    \cup TodoAttachments(call.id)

(* C25: the cascade of a delete is no transaction: a crash between two of
   its statements leaves the rows the cascade had still to delete in the
   store, referencing a task that is gone, and no later step removes an
   orphaned row. *)
C25_CrashLeavesOrphans ==
    [][ /\ (call.op = "cascade" /\ call' = NoRequest)
            => /\ comments' = comments /\ attachments' = attachments
               /\ ~ \E t \in todos' : t.id = call.id
               /\ StillToDelete \subseteq OrphanedRows'
        /\ \A row \in OrphanedRows :
               /\ row \in comments => row \in comments'
               /\ row \in attachments => row \in attachments'
               /\ ~ \E t \in todos' : t.id = row.todo_id ]_vars

(* after a crash: a comment and an attachment of a task that is gone *)
C25_Witness ==
    /\ call = NoRequest
    /\ \E c \in comments : Orphaned(c)
    /\ \E a \in attachments : Orphaned(a) /\ a.s3_key \in objects

----------------------------------------------------------------------------
(* C26: in every state reached by creates and updates, the completion time
   of a task is set if and only if the status of the task is completed; so
   it is for a task whose create request carried the status completed. *)
C26_CompletedAtIffCompleted ==
    /\ \A t \in todos : (t.completed_at # NilTime) <=> (t.status = StatusCompleted)
    /\ (call.op \in {"create", "update"} /\ call.err = NoErr)
          => ((call.todo.completed_at # NilTime) <=> (call.todo.status = StatusCompleted))

(* a task has been completed by an update, and a create whose body carried
   the status completed has returned its row *)
C26_Witness ==
    /\ call.op = "create"
    /\ call.err = NoErr
    /\ call.payload.Status = StatusCompleted
    /\ call.todo \in todos
    /\ \E t \in todos : t.status = StatusCompleted /\ t.completed_at # NilTime

----------------------------------------------------------------------------
UploadStep == call = NoRequest /\ call'.op = "upload"

(* C27: an upload for a task that the principal does not have uploads
   nothing; an upload that the bucket fails inserts no attachment row; and
   an upload whose row insert fails deletes the object it has uploaded: a
   failed upload leaves neither a row nor an object behind. *)
C27_FailedUploadLeavesNothing ==
    [][ UploadStep =>
          /\ TodoRows(call'.user, call'.id) = {}
                => /\ call'.err.kind = "NotFound"
                   /\ ~Invoked(call', "S3.UploadFile")
          /\ call'.fault = "s3" => ~Invoked(call', "UploadTodoAttachment")
          /\ call'.err # NoErr
                => /\ attachments' = attachments
                   /\ objects' = objects ]_vars

----------------------------------------------------------------------------
CreateStep == call = NoRequest /\ call'.op = "create"

(* The steps the handler has made are the first so many of bind, validate,
   call of the service. *)
InHandlerOrder(c) ==
    /\ Len(c.calls) >= 1 /\ c.calls[1] = "Bind"
    /\ Len(c.calls) >= 2 => c.calls[2] = "Validate"
    /\ Len(c.calls) >= 3 => c.calls[3] = "fn"
    /\ \A i \in 4 .. Len(c.calls) : c.calls[i] \notin {"Bind", "Validate", "fn"}

(* C28: the handler binds, validates, calls the service and encodes the
   response, in this order: a request whose body does not bind or does not
   pass validation is answered BadRequest without a call of the service,
   and the status 201 is sent only when the service returned no error. *)
C28_HandlerOrder ==
    [][ CreateStep =>
          /\ InHandlerOrder(call')
          /\ ~Invoked(call', "Validate")
                => /\ ~Invoked(call', "fn")
                   /\ call'.err = NewBadRequestError("Invalid request")
                   /\ call'.http = 400
          /\ ~Validate(call'.payload)
                => /\ ~Invoked(call', "fn")
                   /\ call'.err.kind = "BadRequest"
                   /\ call'.http = 400
          /\ ~Invoked(call', "fn") => todos' = todos /\ call'.event = NoEvent
          /\ call'.http = 201 <=> (Invoked(call', "fn") /\ call'.err = NoErr)
          /\ call'.err = NoErr => call'.todo \in todos' ]_vars

(* a body that binds and does not pass validation has been answered *)
C28_Witness ==
    /\ call.op = "create"
    /\ call.calls = <<"Bind", "Validate">>
    /\ ~Validate(call.payload)
    /\ call.http = 400

----------------------------------------------------------------------------
(* The tasks of a user among the tasks a run has added to the queue *)
EnqueuedFor(userID) ==
    SelectSeq(Enqueued, LAMBDA item : item.payload.UserID = userID)

(* C29: a run of the job enqueues at most MaxTodosPerUserNotification
   reminders for any one user, however many todos of the user are in the
   batch. *)
C29_PerUserLimit ==
    [][ RunStep => \A u \in Users : Len(EnqueuedFor(u)) <= call'.maxPerUser ]_vars


(* The todos of a user among those a run has fetched *)
FetchedFor(c, userID) == SelectSeq(c.todos, LAMBDA t : t.user_id = userID)

Smaller(a, b) == IF a < b THEN a ELSE b

(* C29, as the run does it: MaxTodosPerUserNotification bounds the titles
   the run groups under a user, and not the reminders it enqueues: for
   every user the run enqueues one reminder for each todo of the user in
   the batch whose enqueue succeeds, and groups the titles of the first
   MaxTodosPerUserNotification of the user's todos. *)
C29_PerUserGroupingLimit ==
    [][ (RunStep /\ call'.err = NoErr) =>
          \A u \in Users :
             /\ Len(TitlesOf(call'.userTodos, u))
                   = Smaller(Len(FetchedFor(call', u)), call'.maxPerUser)
             /\ Len(EnqueuedFor(u))
                   = Len(SelectSeq(call'.attempts,
                                   LAMBDA a : a.ok /\ a.task.UserID = u)) ]_vars

(* a run with the limit one has enqueued two reminders for one user and
   grouped one title under the user *)
C29_Witness ==
    /\ call.op = "job"
    /\ call.err = NoErr
    /\ call.maxPerUser = 1
    /\ \E u \in Users :
          /\ Len(SelectSeq(call.enqueued, LAMBDA item : item.payload.UserID = u)) = 2
          /\ Len(FetchedFor(call, u)) = 2
          /\ Len(TitlesOf(call.userTodos, u)) = 1

====
